---- MODULE Spec2Model ----
(***************************************************************************)
(* A model of src/server.ts: the Express server that starts the Meta OAuth *)
(* / WhatsApp Embedded Signup flow (GET /connect), handles the OAuth       *)
(* callback, relays one text message (POST /whatsapp/send-text) and        *)
(* resolves its public URL at startup (app.listen callback).               *)
(*                                                                         *)
(* Text that the code transforms (the state parameter, the access token)   *)
(* is a sequence of character codes (bytes are 0..255), so that JSON,      *)
(* UTF-8, base64 and percent-encoding are computed.  Text that the code    *)
(* only passes on or compares (URLs, ids, the code parameter) is a string. *)
(***************************************************************************)
EXTENDS Integers, Sequences, FiniteSets, TLC

\* ------------------------------------------------------------------------
\* Text helpers
\* ------------------------------------------------------------------------

Min(a, b) == IF a < b THEN a ELSE b

RECURSIVE ConcatRange(_, _, _)
\* ss[lo] \o ... \o ss[hi], by halves
ConcatRange(ss, lo, hi) ==
    IF lo > hi THEN <<>>
    ELSE IF lo = hi THEN ss[lo]
    ELSE LET mid == (lo + hi) \div 2
         IN  ConcatRange(ss, lo, mid) \o ConcatRange(ss, mid + 1, hi)

\* the concatenation of a sequence of sequences
Concat(ss) == ConcatRange(ss, 1, Len(ss))

\* String.prototype.slice(from, to) for 0 <= from <= to (0-based, to exclusive)
Slice(s, from, to) == SubSeq(s, from + 1, Min(to, Len(s)))

\* String.prototype.toLowerCase on the ASCII letters
ToLowerCase(s) == [i \in 1..Len(s) |-> IF s[i] >= 65 /\ s[i] <= 90 THEN s[i] + 32 ELSE s[i]]

\* the value of a hexadecimal digit, -1 for any other character
HexVal(c) ==
    IF c >= 48 /\ c <= 57 THEN c - 48
    ELSE IF c >= 65 /\ c <= 70 THEN c - 55
    ELSE IF c >= 97 /\ c <= 102 THEN c - 87
    ELSE -1

HexUpper(n) == IF n < 10 THEN 48 + n ELSE 55 + n
HexLower(n) == IF n < 10 THEN 48 + n ELSE 87 + n

\* Buffer.toString('hex'): two lower-case digits per byte
ToHex(bytes) == Concat([i \in 1..Len(bytes) |->
                    <<HexLower(bytes[i] \div 16), HexLower(bytes[i] % 16)>>])

\* Buffer.from(str) / Buffer.toString('utf8') for code points below U+0800
Utf8Encode(s) == Concat([i \in 1..Len(s) |->
                    IF s[i] < 128 THEN <<s[i]>>
                    ELSE <<192 + (s[i] \div 64), 128 + (s[i] % 64)>>])

IsUtf8Lead(b, i) == i >= 1 /\ i <= Len(b) /\ b[i] >= 194 /\ b[i] <= 223
IsUtf8Cont(b, i) == i >= 1 /\ i <= Len(b) /\ b[i] >= 128 /\ b[i] <= 191

\* a byte that is no part of a valid sequence decodes to U+FFFD, never throws
Utf8Decode(b) == Concat([i \in 1..Len(b) |->
                    IF b[i] < 128 THEN <<b[i]>>
                    ELSE IF IsUtf8Lead(b, i) /\ IsUtf8Cont(b, i + 1)
                         THEN <<(b[i] - 192) * 64 + (b[i + 1] - 128)>>
                    ELSE IF IsUtf8Cont(b, i) /\ IsUtf8Lead(b, i - 1) THEN <<>>
                    ELSE <<65533>>])

\* ------------------------------------------------------------------------
\* base64 (Buffer.toString('base64') / Buffer.from(s, 'base64'))
\* ------------------------------------------------------------------------

B64Char(n) ==
    IF n < 26 THEN 65 + n
    ELSE IF n < 52 THEN 97 + (n - 26)
    ELSE IF n < 62 THEN 48 + (n - 52)
    ELSE IF n = 62 THEN 43
    ELSE 47

\* the 6-bit value of a base64 character (also the URL-safe '-' and '_'), else -1
B64Val(c) ==
    IF c >= 65 /\ c <= 90 THEN c - 65
    ELSE IF c >= 97 /\ c <= 122 THEN c - 97 + 26
    ELSE IF c >= 48 /\ c <= 57 THEN c - 48 + 52
    ELSE IF c = 43 \/ c = 45 THEN 62
    ELSE IF c = 47 \/ c = 95 THEN 63
    ELSE -1

\* the character at 0-based position j of the base64 text of the bytes b
Base64CharAt(b, j) ==
    LET k == 3 * (j \div 4)
        b1 == b[k + 1]
        b2 == IF k + 2 <= Len(b) THEN b[k + 2] ELSE 0
        b3 == IF k + 3 <= Len(b) THEN b[k + 3] ELSE 0
        r == j % 4
    IN  IF r = 0 THEN B64Char(b1 \div 4)
        ELSE IF r = 1 THEN B64Char((b1 % 4) * 16 + (b2 \div 16))
        ELSE IF r = 2
             THEN (IF k + 2 > Len(b) THEN 61 ELSE B64Char((b2 % 16) * 4 + (b3 \div 64)))
        ELSE (IF k + 3 > Len(b) THEN 61 ELSE B64Char(b3 % 64))

\* Buffer.toString('base64'): four characters per three bytes, '=' padded
Base64Encode(b) == [j \in 1..(4 * ((Len(b) + 2) \div 3)) |-> Base64CharAt(b, j - 1)]

\* the 6-bit values up to the first '=', characters outside the alphabet skipped
B64Sextets(s) == Concat([i \in 1..Len(s) |->
                    IF (\E k \in 1..i : s[k] = 61) \/ B64Val(s[i]) < 0
                    THEN <<>> ELSE <<B64Val(s[i])>>])

\* the byte at 0-based position j of the bytes that the 6-bit values v hold
B64ByteAt(v, j) ==
    LET k == 4 * (j \div 3)
        r == j % 3
    IN  IF r = 0 THEN v[k + 1] * 4 + (v[k + 2] \div 16)
        ELSE IF r = 1 THEN (v[k + 2] % 16) * 16 + (v[k + 3] \div 4)
        ELSE (v[k + 3] % 4) * 64 + v[k + 4]

\* Buffer.from(s, 'base64'): lenient, never throws
Base64Decode(s) ==
    LET v == B64Sextets(s)
    IN  [j \in 1..((Len(v) * 6) \div 8) |-> B64ByteAt(v, j - 1)]

\* ------------------------------------------------------------------------
\* percent-encoding (encodeURIComponent / decodeURIComponent)
\* ------------------------------------------------------------------------

\* A-Z a-z 0-9 - _ . ! ~ * ' ( )
IsUnreserved(c) ==
    \/ c >= 65 /\ c <= 90
    \/ c >= 97 /\ c <= 122
    \/ c >= 48 /\ c <= 57
    \/ c \in {45, 95, 46, 33, 126, 42, 39, 40, 41}

encodeURIComponent(s) ==
    LET b == Utf8Encode(s) IN
    Concat([i \in 1..Len(b) |->
        IF IsUnreserved(b[i]) THEN <<b[i]>>
        ELSE <<37, HexUpper(b[i] \div 16), HexUpper(b[i] % 16)>>])

\* a '%' that is not followed by two hexadecimal digits
MalformedEscape(s) ==
    \E i \in 1..Len(s) :
        /\ s[i] = 37
        /\ ~(i + 2 <= Len(s) /\ HexVal(s[i + 1]) >= 0 /\ HexVal(s[i + 2]) >= 0)

\* the bytes of a well-formed percent-encoded text (the two digits of an
\* escape are never a '%', so they are the two characters after a '%')
PercentBytes(s) == Concat([i \in 1..Len(s) |->
                      IF s[i] = 37 THEN <<HexVal(s[i + 1]) * 16 + HexVal(s[i + 2])>>
                      ELSE IF (i > 1 /\ s[i - 1] = 37) \/ (i > 2 /\ s[i - 2] = 37) THEN <<>>
                      ELSE Utf8Encode(<<s[i]>>)])

\* decodeURIComponent: throws URIError on a malformed escape or invalid UTF-8
decodeURIComponent(s) ==
    IF MalformedEscape(s) THEN [ok |-> FALSE, v |-> <<>>]
    ELSE LET t == Utf8Decode(PercentBytes(s))
         IN  IF \E i \in 1..Len(t) : t[i] = 65533
             THEN [ok |-> FALSE, v |-> <<>>]
             ELSE [ok |-> TRUE, v |-> t]

\* ------------------------------------------------------------------------
\* JSON: objects whose members are strings, as JSON.stringify writes the
\* state payload.  An object is a sequence of <<key, value>> pairs.
\* ------------------------------------------------------------------------

\* JSON.stringify of a string of printable characters: " and \ are escaped
JsonQuote(s) ==
    <<34>> \o Concat([i \in 1..Len(s) |->
                 IF s[i] = 34 \/ s[i] = 92 THEN <<92, s[i]>> ELSE <<s[i]>>]) \o <<34>>

JSONStringify(obj) ==
    <<123>> \o Concat([i \in 1..Len(obj) |->
                 (IF i > 1 THEN <<44>> ELSE <<>>)
                 \o JsonQuote(obj[i][1]) \o <<58>> \o JsonQuote(obj[i][2])]) \o <<125>>

JsonFail == [ok |-> FALSE, v |-> <<>>, next |-> 0]

RECURSIVE JsonStringBody(_, _)
\* the string whose opening quote precedes index i: [ok, v, next]
JsonStringBody(s, i) ==
    IF i > Len(s) THEN JsonFail
    ELSE IF s[i] = 34 THEN [ok |-> TRUE, v |-> <<>>, next |-> i + 1]
    ELSE IF s[i] = 92 THEN
        IF i + 1 <= Len(s) /\ s[i + 1] \in {34, 92, 47}
        THEN LET r == JsonStringBody(s, i + 2)
             IN  IF r.ok THEN [r EXCEPT !.v = <<s[i + 1]>> \o @] ELSE JsonFail
        ELSE JsonFail
    ELSE IF s[i] < 32 THEN JsonFail
    ELSE LET r == JsonStringBody(s, i + 1)
         IN  IF r.ok THEN [r EXCEPT !.v = <<s[i]>> \o @] ELSE JsonFail

RECURSIVE JsonMembers(_, _)
\* the members from index i (a key's opening quote) to the closing brace
JsonMembers(s, i) ==
    IF i > Len(s) \/ s[i] # 34 THEN JsonFail
    ELSE LET k == JsonStringBody(s, i + 1) IN
        IF ~k.ok \/ k.next + 1 > Len(s) \/ s[k.next] # 58 \/ s[k.next + 1] # 34 THEN JsonFail
        ELSE LET val == JsonStringBody(s, k.next + 2) IN
            IF ~val.ok \/ val.next > Len(s) THEN JsonFail
            ELSE IF s[val.next] = 125 THEN
                IF val.next = Len(s)
                THEN [ok |-> TRUE, v |-> << <<k.v, val.v>> >>, next |-> val.next + 1]
                ELSE JsonFail
            ELSE IF s[val.next] = 44 THEN
                LET r == JsonMembers(s, val.next + 1)
                IN  IF r.ok THEN [r EXCEPT !.v = << <<k.v, val.v>> >> \o @] ELSE JsonFail
            ELSE JsonFail

\* JSON.parse: [ok, v]; ok = FALSE is a SyntaxError
JSONParse(s) ==
    IF Len(s) = 2 /\ s[1] = 123 /\ s[2] = 125 THEN [ok |-> TRUE, v |-> <<>>]
    ELSE IF Len(s) > 2 /\ s[1] = 123
         THEN LET r == JsonMembers(s, 2) IN [ok |-> r.ok, v |-> r.v]
    ELSE [ok |-> FALSE, v |-> <<>>]

\* an optional text: a query parameter or a property that may be undefined
None == [set |-> FALSE, v |-> <<>>]
Some(x) == [set |-> TRUE, v |-> x]

RECURSIVE GetFrom(_, _, _)
GetFrom(obj, key, i) ==
    IF i = 0 THEN None
    ELSE IF obj[i][1] = key THEN Some(obj[i][2])
    ELSE GetFrom(obj, key, i - 1)

\* obj[key]: the last member of that name, or undefined
Get(obj, key) == GetFrom(obj, key, Len(obj))

\* ------------------------------------------------------------------------
\* The OAuth state parameter
\* ------------------------------------------------------------------------

STR_es == <<101, 115>>
STR_login == <<108, 111, 103, 105, 110>>
STR_tenant_unknown == <<116, 101, 110, 97, 110, 116, 45, 117, 110, 107, 110, 111, 119, 110>>
KEY_tenantId == <<116, 101, 110, 97, 110, 116, 73, 100>>
KEY_csrf == <<99, 115, 114, 102>>
KEY_mode == <<109, 111, 100, 101>>

\* const tenantId = typeof req.query.tenantId === 'string' ? ... : 'tenant-unknown'
TenantOf(q) == IF q.set THEN q.v ELSE STR_tenant_unknown

\* const mode = (typeof req.query.mode === 'string' ? ... : 'es').toLowerCase()
ModeOf(q) == ToLowerCase(IF q.set THEN q.v ELSE STR_es)

\* { tenantId, csrf: crypto.randomBytes(8).toString('hex'), mode }
StatePayload(tenantId, csrfBytes, mode) ==
    << <<KEY_tenantId, tenantId>>, <<KEY_csrf, ToHex(csrfBytes)>>, <<KEY_mode, mode>> >>

EncodeState_noEscape(tenantId, csrfBytes, mode) ==
    Base64Encode(Utf8Encode(JSONStringify(StatePayload(tenantId, csrfBytes, mode))))

\* encodeURIComponent(Buffer.from(JSON.stringify(statePayload)).toString('base64'))
EncodeState(tenantId, csrfBytes, mode) ==
    encodeURIComponent(
        Base64Encode(Utf8Encode(JSONStringify(StatePayload(tenantId, csrfBytes, mode)))))

\* the value Express hands over for a raw query value: '+' is a space, then
\* percent-decoding; a value that does not decode is passed on as it is
QueryValue(raw) ==
    LET sp == [i \in 1..Len(raw) |-> IF raw[i] = 43 THEN 32 ELSE raw[i]]
        d == decodeURIComponent(sp)
    IN  IF d.ok THEN d.v ELSE sp

\* let mode = 'es'; let stateDecoded = {}; try { ... } catch {}
DecodeState(stateParam) ==
    IF ~stateParam.set \/ stateParam.v = <<>>
    THEN [mode |-> STR_es, stateDecoded |-> <<>>]
    ELSE LET d == decodeURIComponent(stateParam.v) IN
        IF ~d.ok THEN [mode |-> STR_es, stateDecoded |-> <<>>]
        ELSE LET p == JSONParse(Utf8Decode(Base64Decode(d.v))) IN
            IF ~p.ok THEN [mode |-> STR_es, stateDecoded |-> <<>>]
            ELSE LET m == Get(p.v, KEY_mode) IN
                [mode |-> IF m.set /\ m.v # <<>> THEN m.v ELSE STR_es,
                 stateDecoded |-> p.v]

\* ------------------------------------------------------------------------
\* Configuration, bounds and the inputs the environment may send
\* ------------------------------------------------------------------------

META_APP_ID == "app-1"
OTHER_APP_ID == "app-2"
FixedUrl == "https://fixed.example"
TunnelUrl == "https://tunnel.ngrok.example"

\* accessToken.slice(0, 20)
PreviewLen == 20
\* the longest access token the provider returns in the model
MaxTokenLen == 21
\* the number of distinct values crypto.randomBytes(8) takes in the model
NCsrf == 2

\* an optional string (a query parameter, a body field)
Absent == [set |-> FALSE, v |-> ""]
Given(x) == [set |-> TRUE, v |-> x]

\* access_token of the token endpoint's JSON: undefined, a string, or a number
TokenChars(n) == [i \in 1..n |-> 97 + (i % 26)]
UndefinedToken == [type |-> "undefined", v |-> <<>>]
StringToken(n) == [type |-> "string", v |-> TokenChars(n)]
NumberToken == [type |-> "number", v |-> <<>>]
TokenValues ==
    {UndefinedToken, NumberToken} \cup {StringToken(n) : n \in {0, 1, PreviewLen, MaxTokenLen}}

\* JavaScript truthiness of an access_token (the number is not 0)
Truthy(t) == t.type = "number" \/ (t.type = "string" /\ t.v # <<>>)

\* the outcome of an outbound fetch(): it rejects, its body is no JSON
\* (resp.json() throws), or it gives a status (ok) and a JSON body
Outcomes(jsons) ==
    {[outcome |-> o, ok |-> FALSE, json |-> CHOOSE j \in jsons : TRUE] : o \in {"reject", "unparsable"}}
    \cup {[outcome |-> "json", ok |-> k, json |-> j] : k \in BOOLEAN, j \in jsons}

TokenResponses == Outcomes({[access_token |-> t] : t \in TokenValues})

\* debug_token's JSON: no data, or data with is_valid, app_id, expires_at
\* (absent, a date, or a number no Date can hold) and scopes (absent or a list)
DebugJsons ==
    {[data |-> FALSE, is_valid |-> FALSE, app_id |-> "", expires_at |-> "undefined",
      scopes |-> None]}
    \cup {[data |-> TRUE, is_valid |-> v, app_id |-> a, expires_at |-> e, scopes |-> s] :
            v \in BOOLEAN, a \in {META_APP_ID, OTHER_APP_ID},
            e \in {"undefined", "date", "out_of_range"},
            s \in {None, Some(<<"whatsapp_business_messaging">>),
                   Some(<<"whatsapp_business_messaging", "business_management">>)}}

DebugResponses == {r \in Outcomes(DebugJsons) : r.outcome = "json" => r.ok}

\* /me, /me/businesses and /messages: the body is passed on, only ok is read
PlainResponses == Outcomes({"body"})

CsrfBytes(k) == [i \in 1..8 |-> (k * 37 + i * 11) % 256]
Csrfs == {CsrfBytes(k) : k \in 1..NCsrf}

\* a"~\e-acute+ : characters that JSON, UTF-8, base64 and the URL escape
NastyTenant == <<97, 126, 34, 92, 233, 43>>
TenantInputs == {None, Some(NastyTenant)}
\* mode absent, "ES", "login", ""
ModeInputs == {None, Some(<<69, 83>>), Some(STR_login), Some(<<>>)}

\* ------------------------------------------------------------------------
\* State
\* ------------------------------------------------------------------------

VARIABLES
    PUBLIC_URL_ENV,   \* process.env.PUBLIC_URL ("" when unset)
    USE_NGROK,        \* process.env.USE_NGROK, 'true' by default
    NGROK_AUTHTOKEN,  \* process.env.NGROK_AUTHTOKEN ("" when unset)
    CONFIG_ID,        \* process.env.CONFIG_ID ("" when unset)
    PUBLIC_URL,       \* let PUBLIC_URL
    startPc,          \* where the app.listen callback stands
    up,               \* the process is alive
    route,            \* the route of the request in hand
    pc,               \* where its handler stands
    req,              \* the request
    urlSeen,          \* PUBLIC_URL when the handler started
    loc,              \* the handler's local variables
    calls,            \* the outbound calls the handler has made
    resps,            \* the responses the handler has sent
    logs              \* what the handler has written to the console

env == <<PUBLIC_URL_ENV, USE_NGROK, NGROK_AUTHTOKEN, CONFIG_ID>>
handler == <<route, pc, req, urlSeen, loc, calls, resps, logs>>
vars == <<env, PUBLIC_URL, startPc, up, handler>>

Init ==
    /\ PUBLIC_URL_ENV \in {"", FixedUrl}
    /\ USE_NGROK \in {"true", "false"}
    /\ NGROK_AUTHTOKEN \in {"", "ngrok-token"}
    /\ CONFIG_ID \in {"", "cfg-1"}
    /\ PUBLIC_URL = PUBLIC_URL_ENV
    /\ startPc = "listen"
    /\ up = TRUE
    /\ route = "none"
    /\ pc = "idle"
    /\ req = <<>>
    /\ urlSeen = ""
    /\ loc = <<>>
    /\ calls = <<>>
    /\ resps = <<>>
    /\ logs = <<>>

\* ------------------------------------------------------------------------
\* Startup: the app.listen callback
\* ------------------------------------------------------------------------

\* the callback up to its first await
StartListen ==
    /\ startPc = "listen"
    /\ startPc' = IF USE_NGROK = "true"
                  THEN (IF NGROK_AUTHTOKEN # "" THEN "authtoken" ELSE "connect")
                  ELSE "done"
    /\ UNCHANGED <<env, PUBLIC_URL, up, handler>>

\* await ngrok.authtoken(NGROK_AUTHTOKEN) returns, or throws into the catch
NgrokAuthtoken(ok) ==
    /\ startPc = "authtoken"
    /\ startPc' = IF ok THEN "connect" ELSE "done"
    /\ UNCHANGED <<env, PUBLIC_URL, up, handler>>

\* PUBLIC_URL = await ngrok.connect(...), or it throws into the catch
NgrokConnect(ok) ==
    /\ startPc = "connect"
    /\ startPc' = "done"
    /\ PUBLIC_URL' = IF ok THEN TunnelUrl ELSE PUBLIC_URL
    /\ UNCHANGED <<env, up, handler>>

\* ------------------------------------------------------------------------
\* Requests.  One request is in hand at a time; the listener takes requests
\* once app.listen has called back, while the tunnel may still be opening.
\* ------------------------------------------------------------------------

Accepting == up /\ startPc # "listen" /\ pc = "idle"

\* GET /connect has answered with a redirect, which the browser follows
Redirected == up /\ route = "connect" /\ pc = "done" /\ resps[1].kind = "redirect"

\* the exchange is over: the response is sent and the handler has returned,
\* its locals are gone and the listener waits for the next request
RequestEnd ==
    /\ up /\ pc = "done"
    /\ route' = "none"
    /\ pc' = "idle"
    /\ req' = <<>>
    /\ urlSeen' = ""
    /\ loc' = <<>>
    /\ calls' = <<>>
    /\ resps' = <<>>
    /\ logs' = <<>>
    /\ UNCHANGED <<env, PUBLIC_URL, startPc, up>>

Resp(status, kind, body) == [status |-> status, kind |-> kind, body |-> body]

NoPublicUrl_never(publicUrl) == FALSE

\* if (!PUBLIC_URL)
NoPublicUrl(publicUrl) == publicUrl = ""

IsEmbeddedSignup_always(mode) == TRUE

\* if (mode === 'es')
IsEmbeddedSignup(mode) == mode = STR_es

\* `${PUBLIC_URL}/integrations/meta/whatsapp/callback`
RedirectUri(publicUrl) == [base |-> publicUrl, path |-> "/integrations/meta/whatsapp/callback"]

\* the authorization URL; config_id is <<>> when the URL carries none
AuthUrl(publicUrl, state, mode, configId) ==
    [client_id |-> META_APP_ID,
     redirect_uri |-> RedirectUri(publicUrl),
     response_type |-> "code",
     state |-> state,
     config_id |-> IF IsEmbeddedSignup(mode) THEN <<configId>> ELSE <<>>]

\* the response of GET /connect
ConnectResponse(publicUrl, configId, tenantId, csrfBytes, mode) ==
    IF NoPublicUrl(publicUrl) THEN Resp(500, "no_public_url", <<>>)
    ELSE IF IsEmbeddedSignup(mode) /\ configId = "" THEN Resp(400, "config_id_missing", <<>>)
    ELSE Resp(302, "redirect",
              AuthUrl(publicUrl, EncodeState(tenantId, csrfBytes, mode), mode, configId))

\* GET /connect?mode=&tenantId=
Connect(qTenant, qMode, csrfBytes) ==
    /\ Accepting
    /\ route' = "connect"
    /\ pc' = "done"
    /\ req' = [tenantId |-> qTenant, mode |-> qMode]
    /\ urlSeen' = PUBLIC_URL
    /\ loc' = [tenantId |-> TenantOf(qTenant), mode |-> ModeOf(qMode)]
    /\ calls' = <<>>
    /\ LET r == ConnectResponse(PUBLIC_URL, CONFIG_ID, TenantOf(qTenant), csrfBytes,
                                ModeOf(qMode))
       IN  /\ resps' = <<r>>
           /\ logs' = IF r.kind = "redirect" THEN <<[kind |-> "connect_url", v |-> r.body]>>
                      ELSE <<>>
    /\ UNCHANGED <<env, PUBLIC_URL, startPc, up>>

\* GET /health
Health ==
    /\ Accepting
    /\ route' = "health"
    /\ pc' = "done"
    /\ req' = <<>>
    /\ urlSeen' = PUBLIC_URL
    /\ loc' = <<>>
    /\ calls' = <<>>
    /\ resps' = <<Resp(200, "health", "ok")>>
    /\ logs' = <<>>
    /\ UNCHANGED <<env, PUBLIC_URL, startPc, up>>

\* ------------------------------------------------------------------------
\* GET /integrations/meta/whatsapp/callback
\* ------------------------------------------------------------------------

\* the handler's locals before any is assigned; tokenStatus is tokenResp.ok
\* ("none" before the answer), passed lists the outbound calls that have
\* returned a JSON body the handler went on with, thrownAt the step that threw
CallbackLocals ==
    [mode |-> STR_es, stateDecoded |-> <<>>, redirectUri |-> RedirectUri(""),
     tokenStatus |-> "none", tokenJson |-> [access_token |-> UndefinedToken],
     accessToken |-> UndefinedToken,
     debugJson |-> CHOOSE j \in DebugJsons : ~j.data,
     isValid |-> FALSE, matchesApp |-> FALSE, hasBM |-> FALSE,
     meOk |-> FALSE, bizOk |-> FALSE, passed |-> <<>>, thrownAt |-> "none"]

CallbackTryCatch_missing == FALSE

\* the handler's body runs inside try { ... } catch (e) { ... }
CallbackTryCatch == TRUE

\* an exception at `step`: the catch block logs it and answers 500; without
\* a catch the rejection of the async handler ends the process
CallbackThrow(l, step) ==
    /\ pc' = "done"
    /\ loc' = [l EXCEPT !.thrownAt = step]
    /\ up' = CallbackTryCatch
    /\ resps' = IF CallbackTryCatch THEN Append(resps, Resp(500, "callback_error", <<>>))
                ELSE resps
    /\ logs' = IF CallbackTryCatch THEN Append(logs, [kind |-> "exception", v |-> step])
               ELSE logs
    /\ UNCHANGED calls

\* the handler up to its first await
CallbackArrive(qError, qCode, qState, origin) ==
    /\ IF origin.set THEN Redirected ELSE Accepting
    /\ route' = "callback"
    /\ req' = [error |-> qError, code |-> qCode, state |-> qState, origin |-> origin]
    /\ urlSeen' = PUBLIC_URL
    /\ logs' = <<>>
    /\ IF qError.set THEN
           /\ resps' = <<Resp(400, "oauth_error", [error |-> qError.v])>>
           /\ pc' = "done" /\ calls' = <<>> /\ loc' = CallbackLocals
       ELSE IF ~qCode.set \/ qCode.v = "" THEN
           /\ resps' = <<Resp(400, "code_missing", <<>>)>>
           /\ pc' = "done" /\ calls' = <<>> /\ loc' = CallbackLocals
       ELSE LET dec == DecodeState(qState)
                l == [CallbackLocals EXCEPT !.mode = dec.mode,
                                            !.stateDecoded = dec.stateDecoded]
            IN  IF NoPublicUrl(PUBLIC_URL) THEN
                    /\ resps' = <<Resp(500, "no_public_url", <<>>)>>
                    /\ pc' = "done" /\ calls' = <<>> /\ loc' = l
                ELSE
                    /\ resps' = <<>>
                    /\ pc' = "token" /\ calls' = <<"oauth/access_token">>
                    /\ loc' = [l EXCEPT !.redirectUri = RedirectUri(PUBLIC_URL)]
    /\ UNCHANGED <<env, PUBLIC_URL, startPc, up>>

TokenUsable_okOnly(ok, accessToken) == ok

\* !(!tokenResp.ok || !tokenJson.access_token)
TokenUsable(ok, accessToken) == ok /\ Truthy(accessToken)

\* await fetch(tokenUrl); await tokenResp.json(); the check of the token
TokenResponse(r) ==
    /\ route = "callback" /\ pc = "token"
    /\ IF r.outcome # "json" THEN CallbackThrow(loc, "token")
       ELSE IF ~TokenUsable(r.ok, r.json.access_token) THEN
           /\ logs' = Append(logs, [kind |-> "token_error_payload", v |-> r.json])
           /\ resps' = Append(resps, Resp(400, "token_failure", r.json))
           /\ pc' = "done"
           /\ loc' = [loc EXCEPT !.tokenJson = r.json,
                                 !.tokenStatus = IF r.ok THEN "ok" ELSE "not_ok"]
           /\ UNCHANGED <<calls, up>>
       ELSE
           /\ loc' = [loc EXCEPT !.tokenJson = r.json,
                                 !.tokenStatus = IF r.ok THEN "ok" ELSE "not_ok",
                                 !.accessToken = r.json.access_token,
                                 !.passed = Append(@, "token")]
           /\ calls' = Append(calls, "debug_token")
           /\ pc' = "debug"
           /\ UNCHANGED <<resps, logs, up>>
    /\ UNCHANGED <<env, PUBLIC_URL, startPc, route, req, urlSeen>>

\* !!debugJson?.data?.is_valid
IsValid(j) == j.data /\ j.is_valid

\* debugJson?.data?.app_id === META_APP_ID
MatchesApp(j) == j.data /\ j.app_id = META_APP_ID

\* Array.isArray(debugJson?.data?.scopes) ? debugJson.data.scopes : []
Scopes(j) == IF j.data /\ j.scopes.set THEN j.scopes.v ELSE <<>>

HasBM_first(scopes) == scopes # <<>> /\ scopes[1] = "business_management"

\* scopes.includes('business_management')
HasBM(scopes) == \E i \in 1..Len(scopes) : scopes[i] = "business_management"

\* new Date(expires_at * 1000).toISOString() throws a RangeError
ExpiresAtThrows(j) == j.data /\ j.expires_at = "out_of_range"

\* await fetch(debugUrl); await debugResp.json(); the locals read from it
DebugResponse(r) ==
    /\ route = "callback" /\ pc = "debug"
    /\ IF r.outcome # "json" THEN CallbackThrow(loc, "debug")
       ELSE IF ExpiresAtThrows(r.json) THEN CallbackThrow(loc, "expires_at")
       ELSE
           /\ loc' = [loc EXCEPT !.debugJson = r.json,
                                 !.isValid = IsValid(r.json),
                                 !.matchesApp = MatchesApp(r.json),
                                 !.hasBM = HasBM(Scopes(r.json)),
                                 !.passed = Append(@, "debug")]
           /\ calls' = Append(calls, "me")
           /\ pc' = "me"
           /\ UNCHANGED <<resps, logs, up>>
    /\ UNCHANGED <<env, PUBLIC_URL, startPc, route, req, urlSeen>>

AuthOk_noIdentity(isValid, matchesApp, meOk) == isValid /\ matchesApp

\* const authOk = isValid && matchesApp && meResp.ok
AuthOk(isValid, matchesApp, meOk) == isValid /\ matchesApp /\ meOk

\* accessToken.slice(0, 20)
TokenPreview(accessToken) == Slice(accessToken, 0, PreviewLen)

\* the block the report shows for /me/businesses
SkipBlock == [skipped |-> TRUE, json |-> "missing business_management scope"]
BizBlock(ok) == [skipped |-> FALSE, json |-> IF ok THEN "businesses" ELSE "error"]

\* res.status(authOk ? 200 : 400).type('html').send(...)
Report(l, bizBlock) ==
    LET authOk == AuthOk(l.isValid, l.matchesApp, l.meOk)
    IN  Resp(IF authOk THEN 200 ELSE 400, "report",
             [title |-> IF authOk THEN "Autenticacao valida" ELSE "Autenticacao invalida",
              modeLabel |-> IF l.mode = STR_login THEN "Login puro (sem config_id)"
                            ELSE "Embedded Signup (com config_id)",
              redirectUri |-> l.redirectUri,
              is_valid |-> l.isValid,
              app_id_matches |-> l.matchesApp,
              scopes |-> Scopes(l.debugJson),
              business_management |-> l.hasBM,
              bizBlock |-> bizBlock,
              tokenPreview |-> TokenPreview(l.accessToken.v)])

\* the template of the report is evaluated and sent; accessToken.slice is
\* no function when access_token is not a string (a TypeError)
Render(l, bizBlock) ==
    IF l.accessToken.type # "string" THEN CallbackThrow(l, "render")
    ELSE
        /\ resps' = Append(resps, Report(l, bizBlock))
        /\ pc' = "done"
        /\ loc' = l
        /\ UNCHANGED <<calls, logs, up>>

\* await fetch(.../me); await meResp.json(); then /me/businesses or the report
MeResponse(r) ==
    /\ route = "callback" /\ pc = "me"
    /\ IF r.outcome # "json" THEN CallbackThrow(loc, "me")
       ELSE LET l == [loc EXCEPT !.meOk = r.ok, !.passed = Append(@, "me")]
            IN  IF l.hasBM THEN
                    /\ loc' = l
                    /\ calls' = Append(calls, "me/businesses")
                    /\ pc' = "biz"
                    /\ UNCHANGED <<resps, logs, up>>
                ELSE Render(l, SkipBlock)
    /\ UNCHANGED <<env, PUBLIC_URL, startPc, route, req, urlSeen>>

\* await fetch(.../me/businesses); await bizResp.json(); then the report
BizResponse(r) ==
    /\ route = "callback" /\ pc = "biz"
    /\ IF r.outcome # "json" THEN CallbackThrow(loc, "biz")
       ELSE Render([loc EXCEPT !.bizOk = r.ok, !.passed = Append(@, "biz")], BizBlock(r.ok))
    /\ UNCHANGED <<env, PUBLIC_URL, startPc, route, req, urlSeen>>

\* ------------------------------------------------------------------------
\* POST /whatsapp/send-text
\* ------------------------------------------------------------------------

\* encodeURIComponent throws a URIError on a lone surrogate
UriEncodable(s) == \A i \in 1..Len(s) : s[i] < 55296 \/ s[i] > 57343

\* if (!phone_number_id || !to || !token)
SendFieldsMissing(body) == body.phone_number_id = <<>> \/ body.to = "" \/ body.token = ""

SendStatus_always200(ok) == 200

\* res.status(resp.ok ? 200 : 400)
SendStatus(ok) == IF ok THEN 200 ELSE 400

\* an exception in the handler: its catch block logs it and answers 500
SendThrow(step) ==
    /\ pc' = "done"
    /\ loc' = [thrownAt |-> step]
    /\ resps' = Append(resps, Resp(500, "send_error", [error |-> "Falha ao enviar mensagem"]))
    /\ logs' = Append(logs, [kind |-> "exception", v |-> step])

\* the bodies the test form or any client may post: "" and <<>> are a field
\* that is missing (or empty); phone_number_id "123" or a lone surrogate
SendBodies ==
    {[phone_number_id |-> p, to |-> t, token |-> k, text |-> x] :
        p \in {<<>>, <<49, 50, 51>>, <<55296>>}, t \in {"", "5511999999999"},
        k \in {"", "waba-token"}, x \in {"", "hello"}}

\* the handler up to its await of fetch
SendArrive(body) ==
    /\ Accepting
    /\ route' = "send"
    /\ req' = body
    /\ urlSeen' = PUBLIC_URL
    /\ IF SendFieldsMissing(body) THEN
           /\ resps' = <<Resp(400, "fields_missing",
                             [error |-> "Informe phone_number_id, to e token"])>>
           /\ pc' = "done" /\ calls' = <<>> /\ loc' = [thrownAt |-> "none"] /\ logs' = <<>>
       ELSE IF ~UriEncodable(body.phone_number_id) THEN
           /\ pc' = "done"
           /\ loc' = [thrownAt |-> "url"]
           /\ resps' = <<Resp(500, "send_error", [error |-> "Falha ao enviar mensagem"])>>
           /\ logs' = <<[kind |-> "exception", v |-> "url"]>>
           /\ calls' = <<>>
       ELSE
           /\ resps' = <<>> /\ logs' = <<>>
           /\ pc' = "sending" /\ calls' = <<"messages">> /\ loc' = [thrownAt |-> "none"]
    /\ UNCHANGED <<env, PUBLIC_URL, startPc, up>>

\* await fetch(.../messages); await resp.json(); the upstream body is passed on
SendResponse(r) ==
    /\ route = "send" /\ pc = "sending"
    /\ IF r.outcome # "json" THEN SendThrow("messages")
       ELSE
           /\ resps' = Append(resps, Resp(SendStatus(r.ok), "upstream_json", [ok |-> r.ok]))
           /\ pc' = "done"
           /\ UNCHANGED <<loc, logs>>
    /\ UNCHANGED <<env, PUBLIC_URL, startPc, up, route, req, urlSeen, calls>>

\* ------------------------------------------------------------------------
\* Specifications
\* ------------------------------------------------------------------------

\* the browser follows the redirect of GET /connect: the provider sends it
\* back to the callback with the state it was given, unmodified
Echoes ==
    IF Redirected
    THEN {[state |-> Some(QueryValue(resps[1].body.state)),
           origin |-> Some([tenantId |-> req.tenantId, mode |-> req.mode])]}
    ELSE {}

\* a callback request that no /connect of this server started
Strays == {[state |-> s, origin |-> None] : s \in {None, Some(<<37>>), Some(<<33, 33>>)}}

Startup ==
    \/ StartListen
    \/ \E ok \in BOOLEAN : NgrokAuthtoken(ok)
    \/ \E ok \in BOOLEAN : NgrokConnect(ok)

Next ==
    \/ Startup
    \/ RequestEnd
    \/ Health
    \/ \E m \in ModeInputs : Connect(None, m, CsrfBytes(1))
    \/ \E e \in {Absent, Given("access_denied")}, c \in {Absent, Given(""), Given("code-1")},
          s \in Echoes \cup Strays : CallbackArrive(e, c, s.state, s.origin)
    \/ \E r \in TokenResponses : TokenResponse(r)
    \/ \E r \in DebugResponses : DebugResponse(r)
    \/ \E r \in PlainResponses : MeResponse(r)
    \/ \E r \in PlainResponses : BizResponse(r)
    \/ \E b \in SendBodies : SendArrive(b)
    \/ \E r \in PlainResponses : SendResponse(r)

Spec == Init /\ [][Next]_vars

\* the provider's answers when nothing goes wrong: a token, a valid
\* introspection of this app without business_management, an identity
HappyToken == [outcome |-> "json", ok |-> TRUE, json |-> [access_token |-> StringToken(MaxTokenLen)]]
HappyDebug ==
    [outcome |-> "json", ok |-> TRUE,
     json |-> [data |-> TRUE, is_valid |-> TRUE, app_id |-> META_APP_ID, expires_at |-> "date",
               scopes |-> Some(<<"whatsapp_business_messaging">>)]]
HappyPlain == [outcome |-> "json", ok |-> TRUE, json |-> "body"]

\* the state parameter's round trip, over every tenant, mode and random value
NextState ==
    \/ Startup
    \/ RequestEnd
    \/ \E t \in TenantInputs, m \in ModeInputs, c \in Csrfs : Connect(t, m, c)
    \/ \E s \in Echoes \cup Strays : CallbackArrive(Absent, Given("code-1"), s.state, s.origin)
    \/ TokenResponse(HappyToken)
    \/ DebugResponse(HappyDebug)
    \/ MeResponse(HappyPlain)

SpecState == Init /\ [][NextState]_vars

\* ------------------------------------------------------------------------
\* Properties
\* ------------------------------------------------------------------------

Has(seq, x) == \E i \in 1..Len(seq) : seq[i] = x
Count(seq, x) == Cardinality({i \in 1..Len(seq) : seq[i] = x})

\* a JSON payload of the token endpoint that carries a whole token
CarriesToken(json) == json.access_token.type = "string" /\ json.access_token.v # <<>>

\* the callback request has a code and no provider error
HasCodeNoError == ~req.error.set /\ req.code.set /\ req.code.v # ""

\* the introspection answered and its scopes include business_management
BMGranted ==
    /\ Has(loc.passed, "debug") /\ loc.debugJson.data /\ loc.debugJson.scopes.set
    /\ Has(loc.debugJson.scopes.v, "business_management")

\* the introspection says is_valid = true for this app, and /me answered ok
AuthFacts ==
    /\ Has(loc.passed, "debug") /\ loc.debugJson.data /\ loc.debugJson.is_valid
    /\ loc.debugJson.app_id = META_APP_ID
    /\ Has(loc.passed, "me") /\ loc.meOk

\* C1: no response and no log line of the callback handler holds the whole
\* access token: the report shows a proper prefix of it only, and the payload
\* rendered and logged on the token-exchange failure path carries no token.
C1_TokenNeverWhole ==
    route = "callback" =>
        /\ \A i \in 1..Len(resps) :
            /\ resps[i].kind = "report" => resps[i].body.tokenPreview # loc.accessToken.v
            /\ resps[i].kind = "token_failure" => ~CarriesToken(resps[i].body)
        /\ \A i \in 1..Len(logs) :
            logs[i].kind = "token_error_payload" => ~CarriesToken(logs[i].v)

\* C2: when PUBLIC_URL is set in the environment, PUBLIC_URL keeps that value
\* in every state, whatever USE_NGROK is.
C2_FixedUrlKept == PUBLIC_URL_ENV # "" => PUBLIC_URL = PUBLIC_URL_ENV

\* C3: a GET /connect, or a callback with a code and no provider error,
\* handled while PUBLIC_URL is empty is answered at once with one 500, with no
\* redirect and no outbound call, and the process stays up and goes on to the
\* next request.
C3_NoPublicUrlIs500 ==
    (urlSeen = "" /\ (route = "connect" \/ (route = "callback" /\ HasCodeNoError))) =>
        /\ pc = "done"
        /\ Len(resps) = 1 /\ resps[1].status = 500 /\ resps[1].kind = "no_public_url"
        /\ calls = <<>>
        /\ up /\ ENABLED RequestEnd

\* a callback with a code arrives while the listener is up and the tunnel is
\* still opening, and gets the 500
C3_Witness ==
    /\ route = "callback" /\ HasCodeNoError /\ urlSeen = "" /\ startPc = "connect"
    /\ pc = "done" /\ resps[1].status = 500

\* the request's mode, lower-cased, is es (the default when absent)
ReqIsEs == ~req.mode.set \/ ToLowerCase(req.mode.v) = STR_es

\* C4: with a public URL, GET /connect redirects with config_id exactly when
\* the mode is es and CONFIG_ID is configured; es without CONFIG_ID is a 400
\* and no redirect; any other mode redirects with no config_id.
C4_ConfigIdIffEs ==
    (route = "connect" /\ urlSeen # "") =>
        /\ Len(resps) = 1
        /\ (ReqIsEs /\ CONFIG_ID # "") =>
              /\ resps[1].status = 302 /\ resps[1].kind = "redirect"
              /\ resps[1].body.config_id = <<CONFIG_ID>>
        /\ (ReqIsEs /\ CONFIG_ID = "") => resps[1].status = 400 /\ resps[1].kind # "redirect"
        /\ ~ReqIsEs =>
              /\ resps[1].status = 302 /\ resps[1].kind = "redirect"
              /\ resps[1].body.config_id = <<>>

\* plain login with CONFIG_ID configured: a redirect without config_id
C4_Witness ==
    /\ route = "connect" /\ urlSeen # "" /\ CONFIG_ID # ""
    /\ req.mode.set /\ req.mode.v = STR_login
    /\ resps[1].kind = "redirect" /\ resps[1].body.config_id = <<>>

\* C5: the callback stops at the first failing step: a provider error is a
\* 400 that echoes it, a missing code is a 400, both with no outbound call;
\* a token answer without a usable access_token is a 400 with the raw payload
\* and the token exchange stays the only outbound call.
C5_StopsAtFirstFailure ==
    route = "callback" =>
        /\ req.error.set =>
              /\ pc = "done" /\ calls = <<>> /\ Len(resps) = 1
              /\ resps[1].status = 400 /\ resps[1].kind = "oauth_error"
              /\ resps[1].body.error = req.error.v
        /\ (~req.error.set /\ ~HasCodeNoError) =>
              /\ pc = "done" /\ calls = <<>> /\ Len(resps) = 1
              /\ resps[1].status = 400 /\ resps[1].kind = "code_missing"
        /\ (loc.tokenStatus # "none" /\ ~Truthy(loc.tokenJson.access_token)) =>
              /\ pc = "done" /\ calls = <<"oauth/access_token">> /\ Len(resps) = 1
              /\ resps[1].status = 400 /\ resps[1].kind = "token_failure"
              /\ resps[1].body = loc.tokenJson

\* the token endpoint answers 200 with a body that has no access_token
C5_Witness ==
    /\ route = "callback" /\ pc = "done" /\ loc.tokenStatus = "ok"
    /\ loc.tokenJson.access_token.type = "undefined"
    /\ resps[1].kind = "token_failure"

\* C6 as stated: once an invocation that passed the token exchange is over,
\* /me/businesses has been called exactly once if the scopes include
\* business_management and not at all otherwise, and a report rendered
\* without the call holds the skip marker.
C6_CalledIffScope ==
    (route = "callback" /\ pc = "done" /\ Has(loc.passed, "token")) =>
        /\ BMGranted => Count(calls, "me/businesses") = 1
        /\ ~BMGranted => Count(calls, "me/businesses") = 0
        /\ \A i \in 1..Len(resps) :
              (resps[i].kind = "report" /\ Count(calls, "me/businesses") = 0)
                  => resps[i].body.bizBlock.skipped

\* C6 amended: /me/businesses is called at most once and only when the scopes
\* include business_management; it has been called exactly once when they do
\* and the identity step has returned; a report shows the skip marker exactly
\* when the call was not made.
C6_CalledIffScopeUnlessThrown ==
    route = "callback" =>
        /\ Count(calls, "me/businesses") <= 1
        /\ Count(calls, "me/businesses") = 1 => BMGranted
        /\ (BMGranted /\ Has(loc.passed, "me")) => Count(calls, "me/businesses") = 1
        /\ \A i \in 1..Len(resps) :
              resps[i].kind = "report"
                  => (resps[i].body.bizBlock.skipped <=> Count(calls, "me/businesses") = 0)

\* scopes were granted, none of them business_management: the report is
\* rendered with the skip marker and without the call
C6_Witness ==
    /\ route = "callback" /\ pc = "done" /\ Has(loc.passed, "me")
    /\ loc.debugJson.scopes.set /\ ~BMGranted
    /\ Count(calls, "me/businesses") = 0
    /\ resps[1].kind = "report" /\ resps[1].body.bizBlock.skipped

\* C7 as stated: an invocation that obtained a token ends with 200 and the
\* valid page if is_valid, the app id matches and /me answered ok, and with
\* 400 in every other case.
C7_StatusIffAuthFacts ==
    (route = "callback" /\ pc = "done" /\ Has(loc.passed, "token")) =>
        /\ Len(resps) = 1
        /\ AuthFacts => resps[1].status = 200 /\ resps[1].body.title = "Autenticacao valida"
        /\ ~AuthFacts => resps[1].status = 400

\* C7 amended: as C7 when no step threw, whatever /me/businesses answered;
\* 500 when a step threw.
C7_StatusIffAuthFactsUnlessThrown ==
    (route = "callback" /\ pc = "done" /\ Has(loc.passed, "token")) =>
        /\ Len(resps) = 1
        /\ loc.thrownAt # "none" => resps[1].status = 500
        /\ (loc.thrownAt = "none" /\ AuthFacts) =>
              resps[1].status = 200 /\ resps[1].body.title = "Autenticacao valida"
        /\ (loc.thrownAt = "none" /\ ~AuthFacts) =>
              resps[1].status = 400 /\ resps[1].body.title = "Autenticacao invalida"

\* a valid token of this app with business_management: /me/businesses is
\* refused and the status is 200 all the same
C7_Witness ==
    /\ route = "callback" /\ pc = "done" /\ Has(loc.passed, "biz") /\ ~loc.bizOk
    /\ AuthFacts /\ resps[1].status = 200

\* the posted body has phone_number_id, to and token
SendFieldsPresent == req.phone_number_id # <<>> /\ req.to # "" /\ req.token # ""

\* C8 as stated: a send-text request with its three fields ends with exactly
\* one upstream call and the upstream JSON, with 200 if the upstream answered
\* ok and 400 otherwise.
C8_ForwardsOnce ==
    (route = "send" /\ pc = "done" /\ SendFieldsPresent) =>
        /\ calls = <<"messages">>
        /\ Len(resps) = 1 /\ resps[1].kind = "upstream_json"
        /\ resps[1].status = IF resps[1].body.ok THEN 200 ELSE 400

\* C8 amended: at most one upstream call; when the upstream answers with a
\* JSON body, exactly one call and that body, with 200 if it answered ok and
\* 400 if not; when the call fails or the body is no JSON, one call and a 500;
\* when phone_number_id cannot be URL-encoded, no call and a 500.
C8_ForwardsOnceUnlessThrown ==
    (route = "send" /\ SendFieldsPresent) =>
        /\ Len(calls) <= 1
        /\ pc = "done" =>
              /\ Len(resps) = 1
              /\ loc.thrownAt = "none" =>
                    /\ calls = <<"messages">> /\ resps[1].kind = "upstream_json"
                    /\ resps[1].status = IF resps[1].body.ok THEN 200 ELSE 400
              /\ loc.thrownAt = "messages" =>
                    /\ calls = <<"messages">> /\ resps[1].status = 500
              /\ loc.thrownAt = "url" =>
                    /\ calls = <<>> /\ resps[1].status = 500
                    /\ ~UriEncodable(req.phone_number_id)
              /\ UriEncodable(req.phone_number_id) => calls = <<"messages">>

\* the upstream refuses the message: its JSON comes back with 400
C8_Witness ==
    /\ route = "send" /\ pc = "done" /\ SendFieldsPresent
    /\ resps[1].kind = "upstream_json" /\ ~resps[1].body.ok /\ resps[1].status = 400

\* the callback follows a redirect of GET /connect and has decoded its state
Echoed == route = "callback" /\ req.origin.set /\ HasCodeNoError

\* C9 as stated: the state of the redirect, echoed to the callback, decodes
\* to the tenant and the mode that were passed to GET /connect.
C9_RoundTrip ==
    Echoed =>
        /\ req.origin.v.tenantId.set =>
              Get(loc.stateDecoded, KEY_tenantId) = Some(req.origin.v.tenantId.v)
        /\ req.origin.v.mode.set => loc.mode = req.origin.v.mode.v

\* the tenant and the mode GET /connect was asked for, as the callback is to
\* see them: 'tenant-unknown' and es when absent, the mode in lower case
OriginTenant ==
    IF req.origin.v.tenantId.set THEN req.origin.v.tenantId.v ELSE STR_tenant_unknown
OriginMode ==
    IF req.origin.v.mode.set THEN ToLowerCase(req.origin.v.mode.v) ELSE STR_es

\* C9 amended: the echoed state decodes to the tenant passed (or
\* 'tenant-unknown') and to the lower-cased mode passed, for every random
\* value; the callback's mode is that mode, or es when it is empty.
C9_RoundTripLowerCased ==
    Echoed =>
        /\ Get(loc.stateDecoded, KEY_tenantId) = Some(OriginTenant)
        /\ Get(loc.stateDecoded, KEY_mode) = Some(OriginMode)
        /\ loc.mode = IF OriginMode = <<>> THEN STR_es ELSE OriginMode

\* a tenant with characters that every layer escapes, in plain-login mode
C9_Witness ==
    /\ Echoed
    /\ req.origin.v.tenantId.set /\ req.origin.v.tenantId.v = NastyTenant
    /\ req.origin.v.mode.set /\ req.origin.v.mode.v = STR_login
    /\ loc.mode = STR_login
    /\ Get(loc.stateDecoded, KEY_tenantId) = Some(NastyTenant)

\* C10: when a step of the callback throws, the request gets exactly one
\* response, the generic 500, and the process stays up and goes on to the
\* next request.
C10_ThrowIsOne500 ==
    (route = "callback" /\ loc.thrownAt # "none") =>
        /\ pc = "done"
        /\ Len(resps) = 1 /\ resps[1].status = 500 /\ resps[1].kind = "callback_error"
        /\ up /\ ENABLED RequestEnd

\* the last of the four calls, /me/businesses, fails after three that passed
C10_Witness ==
    /\ route = "callback" /\ loc.thrownAt = "biz" /\ Len(calls) = 4
    /\ Len(resps) = 1 /\ resps[1].status = 500

====
